---- MODULE Spec2Model ----
(***************************************************************************)
(* Model of app.py: the Streamlit script that sends uploaded PDFs to the   *)
(* AI model, normalises the JSON answer against SHEET_CONFIG, keeps the    *)
(* result in st.session_state["extractions"], lets the user edit it and    *)
(* appends it to the worksheets of a Google spreadsheet.                   *)
(*                                                                         *)
(* One action is one run of main() triggered by one user interaction.      *)
(***************************************************************************)
EXTENDS Integers, Sequences, FiniteSets, TLC

VARIABLES
    api_key,        \* st.secrets has a (truthy) GOOGLE_API_KEY
    creds,          \* get_gspread_client() finds service-account credentials
    extractions,    \* st.session_state["extractions"]
    sheets,         \* the remote spreadsheet: worksheet name -> rows
    msgs,           \* st.error / st.warning / st.success shown by the last run
    ai_calls,       \* file names given to model.generate_content in the last run
    ops,            \* worksheet operations performed by the last run
    appended,       \* per item last extracted: completed append_rows calls
    last,           \* what the last run was, and the inputs it drew
    runs            \* runs of main() triggered by the user so far

vars == <<api_key, creds, extractions, sheets, msgs, ai_calls, ops, appended,
          last, runs>>

----------------------------------------------------------------------------
(* Bounds of the model *)

MaxFiles == 2       \* files uploaded in one batch
MaxRuns == 3        \* user interactions (runs of main) in a behaviour

----------------------------------------------------------------------------
(* Python values.  A scalar is [t, v] with v its str() text; a dict carries *)
(* its items as a function from keys, a list its elements as a sequence.   *)

PyStr(s) == [t |-> "str", v |-> s]
PyInt(s) == [t |-> "int", v |-> s]
PyNone == [t |-> "NoneType", v |-> "None"]
PyDict(f) == [t |-> "dict", items |-> f]
PyList(s) == [t |-> "list", elems |-> s]

\* faulty variant: repr(x) in place of str(x)
StrRepr(x) == PyStr(IF x.t = "str" THEN "'" \o x.v \o "'" ELSE x.v)
\* str(x) of a scalar: a str is returned as it is, None gives "None", a
\* number its literal
Str(x) == PyStr(x.v)

\* d.get(k, default) on a dict
Get(d, k, default) == IF k \in DOMAIN d.items THEN d.items[k] ELSE default

\* dict keys must be hashable: `x in SHEET_CONFIG` raises TypeError for a
\* list or a dict
Hashable(x) == x.t \notin {"list", "dict"}

----------------------------------------------------------------------------
(* SHEET_CONFIG *)

SHEET_CONFIG ==
    [factura |->
        [sheet |-> "Facturas",
         headers |-> <<"Fecha", "Proveedor", "CUIT", "Nro Factura",
                       "Producto/Servicio", "Cantidad", "Precio Unitario Neto",
                       "IVA %", "Subtotal c/IVA", "Total Factura">>],
     orden_compra |->
        [sheet |-> "Orden de compra",
         headers |-> <<"Fecha", "Proveedor", "Nro OC", "Detalle", "Monto Total",
                       "Condición de Pago">>],
     orden_pago |->
        [sheet |-> "Orden de pago",
         headers |-> <<"Fecha", "Proveedor", "Nro OP", "Facturas Canceladas",
                       "Importe Bruto", "Retenciones", "Neto Pagado",
                       "Medio de Pago">>]]

\* doc_type in SHEET_CONFIG, for a hashable doc_type
InSheetConfig(doc_type) == doc_type.t = "str" /\ doc_type.v \in DOMAIN SHEET_CONFIG

SheetNames == {SHEET_CONFIG[k].sheet : k \in DOMAIN SHEET_CONFIG}

----------------------------------------------------------------------------
(* Row normalisation, lines 110-113 *)

\* faulty variant: one cell per key of the raw row that is a column
RowDataByKeys(r, headers) ==
    LET ks == DOMAIN r.items
        present == SelectSeq(headers, LAMBDA h : h \in ks)
    IN  [i \in 1..Len(present) |-> Str(r.items[present[i]])]
\* [str(r.get(h, "")) for h in headers]
RowData(r, headers) ==
    [i \in 1..Len(headers) |-> Str(Get(r, headers[i], PyStr("")))]

\* clean_rows for a list of dict rows
CleanRows(rows, headers) ==
    [j \in 1..Len(rows) |-> RowData(rows[j], headers)]

----------------------------------------------------------------------------
(* What the AI service may answer for one file *)

Dict1(k, x) == PyDict(k :> x)
Dict2(k1, x1, k2, x2) == PyDict(k1 :> x1 @@ k2 :> x2)

RowAcme == Dict2("Fecha", PyStr("2024-01-01"), "Proveedor", PyStr("ACME"))
RowMixed ==
    PyDict("Fecha" :> PyStr("2024-01-02") @@ "Monto Total" :> PyInt("140000")
           @@ "Detalle" :> PyNone @@ "Moneda" :> PyStr("ARS"))
RowEmpty == PyDict(<<>>)

Answer(doc_type, rows) == Dict2("document_type", doc_type, "rows", PyList(rows))

\* status "raise": generate_content raises; "badjson": response.text is not
\* JSON; "ok": json.loads returns data
Raises == [status |-> "raise", data |-> PyNone]
BadJson == [status |-> "badjson", data |-> PyNone]
Ok(d) == [status |-> "ok", data |-> d]

\* the answers a file may get in a session of several runs
Responses ==
    { Raises,
      Ok(Answer(PyStr("factura"), <<RowAcme>>)),
      Ok(Answer(PyStr("orden_compra"), <<RowMixed, RowEmpty>>)) }

\* the answers the files of one batch may get
BatchResponses ==
    Responses
    \cup { BadJson,
           Ok(PyList(<<RowAcme>>)),
           Ok(Dict1("document_type", PyStr("orden_pago"))),
           Ok(Answer(PyStr("recibo"), <<RowAcme>>)),
           Ok(Dict1("rows", PyList(<<RowAcme>>))),
           Ok(Answer(PyList(<<PyStr("factura")>>), <<RowAcme>>)),
           Ok(Dict2("document_type", PyStr("factura"), "rows", PyNone)),
           Ok(Answer(PyStr("orden_pago"), <<RowAcme, PyStr("texto")>>)) }

FileNames == <<"A.pdf", "B.pdf", "C.pdf", "D.pdf">>

\* the answers explored for a file processed alone: every row over RawKeys
\* ("Moneda" is a column of no schema) and RawValues under every document
\* type, and the answers whose shape is not the one asked for
RawKeys == {"Proveedor", "Moneda"}
RawValues == {PyStr("ACME"), PyStr(""), PyInt("140000"), PyNone}
RawRows == {PyDict(f) : f \in UNION {[K -> RawValues] : K \in SUBSET RawKeys}}

SingleResponses ==
    BatchResponses
    \cup {Ok(Answer(PyStr(k), <<r>>)) : k \in DOMAIN SHEET_CONFIG, r \in RawRows}
    \cup { Ok(Dict2("document_type", PyInt("7"), "rows", PyList(<<RowAcme>>))),
           Ok(Dict2("document_type", PyNone, "rows", PyList(<<RowAcme>>))),
           Ok(Answer(RowAcme, <<RowAcme>>)) }

----------------------------------------------------------------------------
(* The body of the per-file loop, lines 97-122 *)

\* what st.error / st.warning / st.success put on screen
Error(name) == [kind |-> "error", text |-> "Error en", file |-> name]
Warning(name) ==
    [kind |-> "warning", text |-> "No se reconoció el tipo de documento en",
     file |-> name]

Item(name, cfg, rows) ==
    [sheet |-> cfg.sheet, headers |-> cfg.headers, rows |-> rows, file |-> name]

\* what one file adds to results and to the messages on screen
Failed(name) == [items |-> <<>>, msgs |-> <<Error(name)>>]
\* faulty variant: the file is skipped without the warning
SkippedSilently(name) == [items |-> <<>>, msgs |-> <<>>]
Skipped(name) == [items |-> <<>>, msgs |-> <<Warning(name)>>]
Extracted(item) == [items |-> <<item>>, msgs |-> <<>>]

ProcessFile(name, resp) ==
    IF resp.status # "ok" THEN Failed(name)                  \* line 76 / 80
    ELSE LET raw_data == resp.data IN
    IF raw_data.t # "dict" THEN Failed(name)                 \* line 101
    ELSE LET doc_type == Get(raw_data, "document_type", PyNone) IN
    IF ~Hashable(doc_type) THEN Failed(name)                 \* line 103
    ELSE IF ~InSheetConfig(doc_type) THEN Skipped(name)      \* lines 104-105
    ELSE LET cfg == SHEET_CONFIG[doc_type.v]
             rows == Get(raw_data, "rows", PyList(<<>>)) IN
    IF rows.t # "list" THEN Failed(name)                     \* line 111
    ELSE IF \E j \in 1..Len(rows.elems) : rows.elems[j].t # "dict"
         THEN Failed(name)                                   \* line 112
    ELSE Extracted(Item(name, cfg, CleanRows(rows.elems, cfg.headers)))

\* the loop of line 96 from file i on
RECURSIVE ProcessFrom(_, _, _)
ProcessFrom(i, batch, acc) ==
    IF i > Len(batch) THEN acc
    ELSE LET out == ProcessFile(batch[i].name, batch[i].resp) IN
         ProcessFrom(i + 1, batch,
                     [results |-> acc.results \o out.items,
                      msgs |-> acc.msgs \o out.msgs,
                      calls |-> Append(acc.calls, batch[i].name)])

\* faulty variant: the first error ends the loop
RECURSIVE ProcessFromAborting(_, _, _)
ProcessFromAborting(i, batch, acc) ==
    IF i > Len(batch) THEN acc
    ELSE LET out == ProcessFile(batch[i].name, batch[i].resp)
             nxt == [results |-> acc.results \o out.items,
                     msgs |-> acc.msgs \o out.msgs,
                     calls |-> Append(acc.calls, batch[i].name)] IN
         IF out.msgs # <<>> /\ out.msgs[1].kind = "error" THEN nxt
         ELSE ProcessFromAborting(i + 1, batch, nxt)

ProcessFilesAborting(batch) ==
    ProcessFromAborting(1, batch, [results |-> <<>>, msgs |-> <<>>, calls |-> <<>>])
ProcessFiles(batch) ==
    ProcessFrom(1, batch, [results |-> <<>>, msgs |-> <<>>, calls |-> <<>>])

----------------------------------------------------------------------------
(* The review table, lines 129-133 *)

NoEdit == [kind |-> "none", row |-> 0, col |-> 0, value |-> PyNone]
AddRow == [kind |-> "add", row |-> 0, col |-> 0, value |-> PyNone]
DeleteRow(r) == [kind |-> "delete", row |-> r, col |-> 0, value |-> PyNone]
SetCell(r, c, x) == [kind |-> "set", row |-> r, col |-> c, value |-> x]

RemoveAt(s, r) == [j \in 1..(Len(s) - 1) |-> IF j < r THEN s[j] ELSE s[j + 1]]

\* edited_df.values.tolist(): the DataFrame built from rows under the columns
\* headers, with the user's edit applied.  An added row holds None in every
\* column.
DataEditor(rows, headers, edit) ==
    CASE edit.kind = "add" ->
            Append(rows, [c \in 1..Len(headers) |-> PyNone])
      [] edit.kind = "delete" -> RemoveAt(rows, edit.row)
      [] edit.kind = "set" ->
            [rows EXCEPT ![edit.row] = [@ EXCEPT ![edit.col] = edit.value]]
      [] OTHER -> rows

\* the edits the user may make to item idx
EditsOf(item) ==
    {AddRow}
    \cup {DeleteRow(r) : r \in 1..Len(item.rows)}
    \cup {SetCell(r, Len(item.headers), PyStr("X")) : r \in 1..Len(item.rows)}

\* lines 129-133 over the whole store, the edit being made in item idx
Review(store, idx, edit) ==
    [i \in 1..Len(store) |->
        [store[i] EXCEPT !.rows =
            DataEditor(@, store[i].headers, IF i = idx THEN edit ELSE NoEdit)]]

----------------------------------------------------------------------------
(* Publishing, lines 136-154 *)

\* a cell as the spreadsheet stores it
Text(s) == [k |-> "text", v |-> s]
Number(s) == [k |-> "number", v |-> s]
Blank == [k |-> "blank", v |-> ""]

NumericLiterals == {"140000"}

\* append_row(headers): value_input_option defaults to RAW
Raw(x) == Text(x)
\* append_rows(rows, value_input_option="USER_ENTERED"): the service parses
\* the value as if typed; None is sent as null and leaves the cell blank
UserEntered(x) ==
    IF x.t = "NoneType" \/ (x.t = "str" /\ x.v = "") THEN Blank
    ELSE IF x.t = "int" \/ x.v \in NumericLiterals THEN Number(x.v)
    ELSE Text(x.v)

HeaderRow(headers) == [c \in 1..Len(headers) |-> Raw(headers[c])]
ValueRows(rows) ==
    [j \in 1..Len(rows) |-> [c \in 1..Len(rows[j]) |-> UserEntered(rows[j][c])]]

\* the call that raises during the pass, if any: item 0 is open_by_key
NoFail == [item |-> 0, op |-> "none"]
FailAt(i, op) == [item |-> i, op |-> op]
FailPoints(store) ==
    {NoFail, FailAt(0, "open_by_key")}
    \cup {FailAt(i, op) : i \in 1..Len(store),
            op \in {"worksheet", "get_all_values", "append_row", "append_rows"}}

Call(op, i, sheet, raised) == [op |-> op, item |-> i, sheet |-> sheet, raised |-> raised]

\* faulty variant: the header is written for every item
NeedsHeaderAlways(rows) == TRUE
\* line 144: the header is due when the worksheet has no values
NeedsHeader(rows) == Len(rows) = 0

\* lines 141-148 from item i on; sh is the spreadsheet, log the calls so far
RECURSIVE PublishFrom(_, _, _, _, _)
PublishFrom(i, items, sh, log, fail) ==
    IF i > Len(items)
    THEN [sheets |-> sh, ops |-> log, ok |-> TRUE, failed |-> 0]
    ELSE
    LET item == items[i]
        ws == item.sheet
        Fails(op) == fail.item = i /\ fail.op = op
        Abort(sh2, log2) == [sheets |-> sh2, ops |-> log2, ok |-> FALSE, failed |-> i]
        log1 == Append(log, Call("worksheet", i, ws, Fails("worksheet")))
        log2 == Append(log1, Call("get_all_values", i, ws, Fails("get_all_values")))
        header == NeedsHeader(sh[ws])
        log3 == IF header
                THEN Append(log2, Call("append_row", i, ws, Fails("append_row")))
                ELSE log2
        sh3 == IF header
               THEN [sh EXCEPT ![ws] = Append(@, HeaderRow(item.headers))]
               ELSE sh
        log4 == Append(log3, Call("append_rows", i, ws, Fails("append_rows")))
        sh4 == [sh3 EXCEPT ![ws] = @ \o ValueRows(item.rows)]
    IN  IF Fails("worksheet") THEN Abort(sh, log1)
        ELSE IF Fails("get_all_values") THEN Abort(sh, log2)
        ELSE IF header /\ Fails("append_row") THEN Abort(sh, log3)
        ELSE IF Fails("append_rows") THEN Abort(sh3, log4)
        ELSE PublishFrom(i + 1, items, sh4, log4, fail)

\* lines 139-154: the try block and its handler
PublishPass(items, sh, fail) ==
    IF fail.op = "open_by_key"
    THEN [sheets |-> sh, ops |-> <<>>, ok |-> FALSE, failed |-> 0]
    ELSE PublishFrom(1, items, sh, <<>>, fail)

\* faulty variant: the store is reset whether or not the pass succeeded
StoreAfterPassCleared(store, ok) == <<>>
\* lines 150-154: the store after the pass
StoreAfterPass(store, ok) == IF ok THEN <<>> ELSE store

Success == [kind |-> "success", text |-> "¡Datos cargados con éxito!", file |-> ""]
UploadError == [kind |-> "error", text |-> "Error al subir", file |-> ""]
MissingKey == [kind |-> "error", text |-> "Falta GOOGLE_API_KEY", file |-> ""]

----------------------------------------------------------------------------
(* The runs of main() *)

OldRow == [c \in 1..Len(SHEET_CONFIG.factura.headers) |-> Text("previo")]

\* the spreadsheet when the session starts: "Facturas" already holds a header
\* and a row, the other worksheets are empty
InitialSheets ==
    [n \in SheetNames |->
        IF n = "Facturas"
        THEN <<HeaderRow(SHEET_CONFIG.factura.headers), OldRow>>
        ELSE <<>>]

Ran(kind, batch, ok, failed) ==
    [kind |-> kind, batch |-> batch, ok |-> ok, failed |-> failed]

Init ==
    /\ api_key \in BOOLEAN
    /\ creds \in BOOLEAN
    /\ extractions = <<>>                              \* lines 87-88
    /\ sheets = InitialSheets
    /\ msgs = <<>>
    /\ ai_calls = <<>>
    /\ ops = <<>>
    /\ appended = <<>>
    /\ last = Ran("start", <<>>, TRUE, 0)
    /\ runs = 0

\* the batches the user may upload: file i answers rs[i]
Batch(rs) == [i \in 1..Len(rs) |-> [name |-> FileNames[i], resp |-> rs[i]]]

\* "Procesar con IA" clicked with uploaded_files = batch, lines 92-133
ProcessRun(batch) ==
    /\ runs < MaxRuns
    /\ runs' = runs + 1
    /\ IF ~api_key
       THEN \* init_models: st.error, st.stop
            /\ msgs' = <<MissingKey>>
            /\ ai_calls' = <<>>
            /\ UNCHANGED <<extractions, appended>>
       ELSE LET r == ProcessFiles(batch) IN
            /\ extractions' = Review(r.results, 0, NoEdit)   \* lines 124-133
            /\ msgs' = r.msgs
            /\ ai_calls' = r.calls
            /\ appended' = [i \in 1..Len(r.results) |-> 0]
    /\ ops' = <<>>
    /\ last' = Ran("process", batch, api_key, 0)
    /\ UNCHANGED <<api_key, creds, sheets>>

Process ==
    \E n \in 1..MaxFiles : \E rs \in [1..n -> Responses] : ProcessRun(Batch(rs))

\* the user edits the table of item idx, lines 127-133
EditRun(idx, edit) ==
    /\ runs < MaxRuns
    /\ runs' = runs + 1
    /\ extractions' = Review(extractions, idx, edit)
    /\ msgs' = <<>>
    /\ ai_calls' = <<>>
    /\ ops' = <<>>
    /\ last' = Ran("edit", <<>>, TRUE, 0)
    /\ UNCHANGED <<api_key, creds, sheets, appended>>

Edit ==
    \E idx \in 1..Len(extractions) : \E edit \in EditsOf(extractions[idx]) :
        EditRun(idx, edit)

\* completed append_rows calls of item i in a log of calls
Appends(log, i) ==
    Cardinality({n \in 1..Len(log) :
        log[n].op = "append_rows" /\ log[n].item = i /\ ~log[n].raised})

\* "Confirmar y Subir a Google Sheets" clicked, lines 127-154; the button is
\* drawn only while the store is not empty
PublishRun(fail) ==
    /\ runs < MaxRuns
    /\ runs' = runs + 1
    /\ extractions # <<>>
    /\ ai_calls' = <<>>
    /\ LET store == Review(extractions, 0, NoEdit) IN
       IF ~creds
       THEN \* line 137: client is None
            /\ fail = NoFail
            /\ extractions' = store
            /\ msgs' = <<>>
            /\ ops' = <<>>
            /\ last' = Ran("publish", <<>>, FALSE, 0)
            /\ UNCHANGED <<sheets, appended>>
       ELSE LET r == PublishPass(store, sheets, fail) IN
            /\ fail.op = "append_row" => ~r.ok
            /\ extractions' = StoreAfterPass(store, r.ok)
            /\ sheets' = r.sheets
            /\ ops' = r.ops
            /\ msgs' = IF r.ok THEN <<Success>> ELSE <<UploadError>>
            /\ appended' = [i \in 1..Len(store) |-> appended[i] + Appends(r.ops, i)]
            /\ last' = Ran("publish", <<>>, r.ok, r.failed)
    /\ UNCHANGED <<api_key, creds>>

Publish == \E fail \in FailPoints(extractions) : PublishRun(fail)

Next == Process \/ Edit \/ Publish

Spec == Init /\ [][Next]_vars

\* the first run of a session being a "Procesar con IA" run: the run assigns
\* the store without reading it (lines 94 and 124), so what it leaves
\* depends on the batch alone
ProcessBatch ==
    /\ runs = 0
    /\ \E n \in 1..MaxFiles : \E rs \in [1..n -> BatchResponses] :
          ProcessRun(Batch(rs))

SpecBatch == Init /\ [][ProcessBatch]_vars

\* the sessions in which every batch is a single file
ProcessSingle == \E resp \in SingleResponses : ProcessRun(Batch(<<resp>>))

SpecSingle == Init /\ [][ProcessSingle]_vars

----------------------------------------------------------------------------
(* Vocabulary of the properties *)

\* how many messages of a kind name a file
Shown(kind, name) ==
    Cardinality({m \in 1..Len(msgs) : msgs[m].kind = kind /\ msgs[m].file = name})

ItemsOf(name) == {j \in 1..Len(extractions) : extractions[j].file = name}

\* the last run was a "Procesar con IA" run that got past init_models
Processed == last.kind = "process" /\ last.ok

\* the answer is a JSON object
IsObject(resp) == resp.status = "ok" /\ resp.data.t = "dict"
DocType(resp) == Get(resp.data, "document_type", PyNone)
IsKey(x) == x.t = "str" /\ x.v \in {"factura", "orden_compra", "orden_pago"}

\* the rows of the answer are a list of mappings (or are absent)
RowsWellShaped(resp) ==
    LET rows == Get(resp.data, "rows", PyList(<<>>)) IN
    /\ rows.t = "list"
    /\ \A j \in 1..Len(rows.elems) : rows.elems[j].t = "dict"

\* the extraction of the file raises: the call, the parsing, or the shape
ExtractionFails(resp) ==
    \/ ~IsObject(resp)
    \/ DocType(resp).t \in {"list", "dict"}
    \/ IsKey(DocType(resp)) /\ ~RowsWellShaped(resp)

Recognized(resp) == IsObject(resp) /\ IsKey(DocType(resp)) /\ RowsWellShaped(resp)

\* the files of the batch before file i that satisfy P
Before(batch, i, P(_)) == Cardinality({k \in 1..(i - 1) : P(batch[k].resp)})

----------------------------------------------------------------------------
(* C1: an item held in the store leaves it only through a publish pass in  *)
(* which every item was appended without error; no other run, a later      *)
(* "Procesar con IA" run included, removes or empties the items held.      *)

Kept(store, store2) ==
    /\ Len(store2) >= Len(store)
    /\ \A i \in 1..Len(store) :
          store2[i].file = store[i].file /\ store2[i].sheet = store[i].sheet

C1_RemovedOnlyByPublish ==
    [][Kept(extractions, extractions') \/ (last'.kind = "publish" /\ last'.ok)]_vars

----------------------------------------------------------------------------
(* C2: when a publish pass fails on item k, no worksheet call is made for  *)
(* an item after k, the error message is shown, and the store after the    *)
(* pass is the store before it.                                            *)

C2_FailedPassKeepsStore ==
    [][(last'.kind = "publish" /\ creds /\ ~last'.ok) =>
          /\ extractions' = extractions
          /\ \A n \in 1..Len(ops') : ops'[n].item <= last'.failed
          /\ \A n \in 1..Len(ops') : ops'[n].raised => n = Len(ops')
          /\ msgs' = <<UploadError>>]_vars

C2_Witness ==
    /\ last.kind = "publish" /\ creds /\ ~last.ok
    /\ last.failed = 1
    /\ Len(extractions) = 2
    /\ \E n \in 1..Len(ops) : ops[n].op = "append_rows" /\ ops[n].raised

----------------------------------------------------------------------------
(* C3: after a "Procesar con IA" run the store holds exactly one item for  *)
(* each file that did not fail and has a recognized type, in upload order, *)
(* and none for a failing file; each failing file is named by exactly one  *)
(* error message, and the files after it are still processed.             *)

C3_PerFileIsolation ==
    Processed =>
        LET batch == last.batch
            good == {i \in 1..Len(batch) : Recognized(batch[i].resp)}
        IN  /\ Len(extractions) = Cardinality(good)
            /\ \A i \in good :
                  extractions[Before(batch, i, Recognized) + 1].file = batch[i].name
            /\ \A i \in 1..Len(batch) :
                  Shown("error", batch[i].name) =
                      IF ExtractionFails(batch[i].resp) THEN 1 ELSE 0
            /\ ai_calls = [i \in 1..Len(batch) |-> batch[i].name]

C3_Witness ==
    /\ Processed
    /\ Len(last.batch) = 2
    /\ ExtractionFails(last.batch[1].resp)
    /\ Recognized(last.batch[2].resp)
    /\ Len(extractions) = 1 /\ extractions[1].file = "B.pdf"
    /\ Shown("error", "A.pdf") = 1

----------------------------------------------------------------------------
(* C4: a missing credential is reported and the run does not proceed: with *)
(* no API key a "Procesar con IA" run shows an error, calls the AI for no  *)
(* file and leaves the store as it was; with no spreadsheet credentials a  *)
(* publish run shows an error, makes no spreadsheet call and leaves the    *)
(* store as it was.                                                        *)

C4_MissingCredentialReported ==
    [][/\ (last'.kind = "process" /\ ~api_key) =>
            /\ \E m \in 1..Len(msgs') : msgs'[m].kind = "error"
            /\ ai_calls' = <<>>
            /\ extractions' = extractions
       /\ (last'.kind = "publish" /\ ~creds) =>
            /\ \E m \in 1..Len(msgs') : msgs'[m].kind = "error"
            /\ ops' = <<>>
            /\ extractions' = extractions]_vars

----------------------------------------------------------------------------
(* C5: a file whose answer carries a document_type that is no key of       *)
(* SHEET_CONFIG (an absent one included) gets no item and exactly one      *)
(* warning, and the other files of the batch are still processed.          *)

NotAKey(resp) == IsObject(resp) /\ ~IsKey(DocType(resp))

C5_UnknownTypeWarned ==
    Processed =>
        /\ ai_calls = [i \in 1..Len(last.batch) |-> last.batch[i].name]
        /\ \A i \in 1..Len(last.batch) :
              NotAKey(last.batch[i].resp) =>
                  /\ ItemsOf(last.batch[i].name) = {}
                  /\ Shown("warning", last.batch[i].name) = 1

\* C5 as amended: the warning is for a document_type that is absent or a
\* JSON scalar; a document_type that is a JSON array or object gets no item
\* and exactly one error message instead of the warning.
C5_UnknownScalarTypeWarned ==
    Processed =>
        /\ ai_calls = [i \in 1..Len(last.batch) |-> last.batch[i].name]
        /\ \A i \in 1..Len(last.batch) :
              LET resp == last.batch[i].resp
                  name == last.batch[i].name
              IN  NotAKey(resp) =>
                      /\ ItemsOf(name) = {}
                      /\ IF DocType(resp).t \in {"list", "dict"}
                         THEN Shown("warning", name) = 0 /\ Shown("error", name) = 1
                         ELSE Shown("warning", name) = 1 /\ Shown("error", name) = 0

C5_Witness ==
    /\ Processed
    /\ Len(last.batch) = 2
    /\ NotAKey(last.batch[1].resp)
    /\ "document_type" \notin DOMAIN last.batch[1].resp.data.items
    /\ Shown("warning", "A.pdf") = 1
    /\ ItemsOf("B.pdf") # {}

----------------------------------------------------------------------------
(* C6: in a publish pass the header row is written to an item's worksheet  *)
(* if and only if the worksheet has no rows when the item is processed;    *)
(* then the item's rows are appended at the end, in order.  Rows already   *)
(* in a worksheet are never modified or removed, and several items for the *)
(* same empty worksheet write its header once.                             *)

\* the rows items 1..n of the store send to worksheet s, in order
RECURSIVE RowsTo(_, _, _)
RowsTo(store, n, s) ==
    IF n = 0 THEN <<>>
    ELSE RowsTo(store, n - 1, s)
         \o (IF store[n].sheet = s THEN ValueRows(store[n].rows) ELSE <<>>)

HeadersOfSheet(s) ==
    SHEET_CONFIG[CHOOSE k \in DOMAIN SHEET_CONFIG : SHEET_CONFIG[k].sheet = s].headers

IsPrefix(a, b) == Len(a) <= Len(b) /\ SubSeq(b, 1, Len(a)) = a

\* call n of the log found the worksheet without rows
FoundEmpty(before, log, n) ==
    /\ before[log[n].sheet] = <<>>
    /\ ~\E m \in 1..(n - 1) :
            log[m].sheet = log[n].sheet /\ log[m].op = "append_row"

C6_HeaderOnlyWhenEmpty ==
    [][(last'.kind = "publish" /\ creds) =>
          /\ \A s \in SheetNames : IsPrefix(sheets[s], sheets'[s])
          /\ \A n \in 1..Len(ops') :
                (ops'[n].op = "get_all_values" /\ ~ops'[n].raised) =>
                    (FoundEmpty(sheets, ops', n) <=>
                        /\ n < Len(ops')
                        /\ ops'[n + 1].op = "append_row"
                        /\ ops'[n + 1].item = ops'[n].item)
          /\ \A n \in 1..Len(ops') :
                ops'[n].op = "append_row" =>
                    n > 1 /\ ops'[n - 1].op = "get_all_values"
                          /\ ops'[n - 1].item = ops'[n].item
          /\ last'.ok =>
                \A s \in SheetNames :
                    sheets'[s] =
                        sheets[s]
                        \o (IF sheets[s] = <<>>
                               /\ \E i \in 1..Len(extractions) : extractions[i].sheet = s
                            THEN <<[c \in 1..Len(HeadersOfSheet(s)) |->
                                        Text(HeadersOfSheet(s)[c])]>>
                            ELSE <<>>)
                        \o RowsTo(extractions, Len(extractions), s)]_vars

C6_Witness ==
    /\ last.kind = "publish" /\ creds /\ last.ok
    /\ \E n \in 1..Len(ops) : ops[n].op = "append_rows" /\ ops[n].sheet = "Facturas"
    /\ \E n \in 1..Len(ops) : ops[n].op = "append_row" /\ ops[n].sheet = "Orden de compra"
    /\ \A n \in 1..Len(ops) : ops[n].op = "append_row" => ops[n].sheet # "Facturas"
    /\ Len(sheets["Facturas"]) = 3
    /\ Len(sheets["Orden de compra"]) = 3

----------------------------------------------------------------------------
(* C7: every row of every item in the store is as long as the item's       *)
(* headers, which are as many as the columns SHEET_CONFIG gives the item's *)
(* sheet, whatever keys the raw rows had and whatever the user edited.     *)

C7_RowWidth ==
    \A i \in 1..Len(extractions) :
        LET item == extractions[i] IN
        /\ item.sheet \in SheetNames
        /\ Len(item.headers) = Len(HeadersOfSheet(item.sheet))
        /\ \A j \in 1..Len(item.rows) : Len(item.rows[j]) = Len(item.headers)

C7_Witness ==
    /\ last.kind = "edit"
    /\ \E i \in 1..Len(extractions) :
          /\ extractions[i].sheet = "Orden de compra"
          /\ Len(extractions[i].rows) = 3
          /\ extractions[i].rows[3][1] = PyNone

----------------------------------------------------------------------------
(* C8: a normalized row holds at position i the string form of the raw     *)
(* row's value for column i, and the empty string when the key is absent   *)
(* or the value is null; keys outside the schema do not affect it.  The    *)
(* answer {factura, rows: [{Fecha: 2024-01-01, Proveedor: ACME}]} gives    *)
(* one row: the two values followed by eight empty strings.                *)

Missing(r, h) == h \notin DOMAIN r.items \/ r.items[h].t = "NoneType"

C8_MissingOrNullIsEmpty ==
    Processed =>
        \A i \in 1..Len(last.batch) :
            LET resp == last.batch[i].resp IN
            Recognized(resp) =>
                LET item == extractions[Before(last.batch, i, Recognized) + 1]
                    raw == Get(resp.data, "rows", PyList(<<>>)).elems
                IN  /\ Len(item.rows) = Len(raw)
                    /\ \A j \in 1..Len(raw) : \A c \in 1..Len(item.headers) :
                          item.rows[j][c] =
                              IF Missing(raw[j], item.headers[c])
                              THEN PyStr("")
                              ELSE PyStr(raw[j].items[item.headers[c]].v)
                    /\ resp = Ok(Answer(PyStr("factura"), <<RowAcme>>)) =>
                          item.rows =
                              <<[c \in 1..10 |->
                                    PyStr(CASE c = 1 -> "2024-01-01"
                                            [] c = 2 -> "ACME"
                                            [] OTHER -> "")]>>

----------------------------------------------------------------------------
(* C9: normalizing the normalized rows again, each taken as the mapping    *)
(* from column name to its own string, gives the same rows in the same     *)
(* order.                                                                  *)

AsMappings(rows, headers) ==
    [j \in 1..Len(rows) |->
        PyDict([h \in {headers[c] : c \in 1..Len(headers)} |->
                   rows[j][CHOOSE c \in 1..Len(headers) : headers[c] = h]])]

C9_NormalizeIdempotent ==
    Processed =>
        \A i \in 1..Len(extractions) :
            LET item == extractions[i] IN
            CleanRows(AsMappings(item.rows, item.headers), item.headers) = item.rows

C9_Witness ==
    /\ Processed
    /\ \E i \in 1..Len(extractions) : \E j \in 1..Len(extractions[i].rows) :
          LET row == extractions[i].rows[j] IN
          /\ \E c \in 1..Len(row) : row[c] = PyStr("None")
          /\ \E c \in 1..Len(row) : row[c] = PyStr("140000")
          /\ \E c \in 1..Len(row) : row[c] = PyStr("")

----------------------------------------------------------------------------
(* C10: over the publish passes made on the same store (a pass that fails  *)
(* at item k, then retries), the rows of each item are appended to the     *)
(* spreadsheet at most once.                                               *)

C10_AppendedAtMostOnce ==
    \A i \in 1..Len(appended) : appended[i] <= 1

====
